---- MODULE Spec2Model ----
(***************************************************************************)
(* Model of the bulk-job pipeline of vendordetailer: the BulkJobProcessor,  *)
(* the RateLimiter middleware (section RateLimiter) and the retry loop of   *)
(* ShopifyService (section ShopifyService requests).                        *)
(*                                                                         *)
(* BulkJobProcessor (createJob / processJob / retryJob / cancelJob) runs   *)
(* on one JavaScript event loop: the code between two awaits is atomic,    *)
(* every await is a point where other handlers and routines interleave.    *)
(* Each action below is one such atomic segment, or the effect of one      *)
(* storage / external call that the segment before it has issued.          *)
(* A storage read is taken together with the segment that consumes it; a   *)
(* storage write that is followed by in-memory work (the guard release,    *)
(* the re-invocation of processJob) is a step of its own.                  *)
(***************************************************************************)
EXTENDS Integers, Sequences, FiniteSets, Bags, TLC

\* ---------------------------------------------------------------- constants and bounds
\* const batchSize = 10 in processJob
batchSize == 10

\* the longest item list a job is created with (three batches: 10, 10, 1)
MaxItems == 21

\* events the environment contributes to one behaviour: retryJob / cancelJob
\* requests, refused create requests, failing item updates, storage operations
\* that throw
MaxEvents == 2

\* the ids storage hands out (gen_random_uuid)
JobIds == {"j1"}

\* productIds.length of the jobs created
ItemCounts == {1, batchSize, MaxItems}

\* middleware calls and clock advances the RateLimiter instances see in one behaviour
MaxChecks == 5

\* middleware calls and clock advances of one caller that is followed until it
\* has been refused and has come back
MaxVisits == 9

\* the longest id list bulkUpdateVendor is followed on
MaxIds == 3

\* productIds.length of the create requests the clients send
RequestCounts == {0} \cup ItemCounts

\* the failures one run is followed through when its digest is looked at (more
\* than the five descriptors the digest keeps)
MaxFailures == 7

\* ---------------------------------------------------------------- values
Min(a, b) == IF a < b THEN a ELSE b

NullMsg == [kind |-> "null", text |-> "", failed |-> 0, errors |-> <<>>, more |-> FALSE]

TextMsg(s) == [kind |-> "text", text |-> s, failed |-> 0, errors |-> <<>>, more |-> FALSE]

CancelMsg == TextMsg("Job cancelled by user")

TokenMsg == TextMsg("Shop access token not found")

NotFoundMsg == TextMsg("Job not found")

StorageMsg == TextMsg("storage error")

Take(s, n) == SubSeq(s, 1, Min(n, Len(s)))

\* variant: the digest lists every descriptor
errorMessageOf_Uncapped(failureCount, allErrors) ==
    IF Len(allErrors) > 0
    THEN [kind |-> "digest", text |-> "", failed |-> failureCount,
          errors |-> allErrors, more |-> Len(allErrors) > 5]
    ELSE NullMsg

\* `${failureCount} products failed. Errors: ${first five}${more ? '...' : ''}`
errorMessageOf(failureCount, allErrors) ==
    IF Len(allErrors) > 0
    THEN [kind |-> "digest", text |-> "", failed |-> failureCount,
          errors |-> Take(allErrors, 5), more |-> Len(allErrors) > 5]
    ELSE NullMsg

\* variant: the final update always reports success
finalStatusOf_AlwaysSuccess(failureCount) == "SUCCESS"

finalStatusOf(failureCount) == IF failureCount = 0 THEN "SUCCESS" ELSE "FAILED"

\* ---------------------------------------------------------------- storage
\* jobs            the bulk_jobs table, keyed by job id
\* processingJobs  BulkJobProcessor.processingJobs, the guard set
\* routines        the processJob invocations that have not returned (a bag of
\*                 their local states)
\* calls           the createJob / retryJob / cancelJob invocations that are
\*                 suspended at an await (a bag)
\* hasToken        whether shop_settings holds an access token for the shop
\* callBudget      retryJob / cancelJob requests, and create requests the schema
\*                 refuses, the clients may still send
\* faultBudget     failures the environment may still inject (an item update
\*                 that fails, a storage operation that throws); the two
\*                 budgets together allow MaxEvents such events in one behaviour
\* last            the outcome of the latest JobHandle call that returned or threw
\* cancelMark      per job, processedCount at the latest successful cancelJob,
\*                 -1 once a retryJob has been accepted after it
VARIABLES jobs, processingJobs, routines, calls, hasToken,
          callBudget, faultBudget, last, cancelMark

\* the state of the job processor
jobVars == <<jobs, processingJobs, routines, calls, hasToken,
             callBudget, faultBudget, last, cancelMark>>

\* requests     per RateLimiter instance, its requests map (key -> RequestLog)
\* now          Date.now(), in milliseconds
\* reply        what the latest middleware call did: its instance and key, the
\*              entry it found, 'next' or 429 with retryAfter, the headers
\* checkBudget  middleware calls and clock advances still allowed
\* unswept      per instance, the requests map as the same middleware calls
\*              would have left it had cleanup() never run
\* incoming     the requests whose throttle key is being derived, and the keys
\*              derived so far
VARIABLES requests, now, reply, checkBudget, unswept, incoming

throttleVars == <<requests, now, reply, checkBudget, unswept, incoming>>

\* request      the makeGraphQLRequestWithRetry call in progress: its loop
\*              position, the attempts dispatched and the delays taken so far
VARIABLES request

clientVars == <<request>>

\* bulk         the bulkUpdateVendor call in progress: its id list, its position,
\*              its result, and what it has done so far (updates and pauses)
VARIABLES bulk

bulkVars == <<bulk>>

vars == <<jobVars, throttleVars, clientVars, bulkVars>>

Put(bag, x) == bag (+) SetToBag({x})

Drop(bag, x) == bag (-) SetToBag({x})

Swap(bag, x, y) == Put(Drop(bag, x), y)

\* variant: the record is inserted as already running
newJob_Running(n) ==
    [status |-> "RUNNING", processedCount |-> 0, errorMessage |-> NullMsg,
     completedAt |-> "null", productIds |-> [x \in 1..n |-> x],
     totalCount |-> n, targetVendor |-> "vendor"]

newJob(n) ==
    [status |-> "PENDING", processedCount |-> 0, errorMessage |-> NullMsg,
     completedAt |-> "null", productIds |-> [x \in 1..n |-> x],
     totalCount |-> n, targetVendor |-> "vendor"]

createBulkJob(js, id, n) == [x \in DOMAIN js \cup {id} |-> IF x = id THEN newJob(n) ELSE js[x]]

updateBulkJob(js, id, updates) ==
    IF id \in DOMAIN js
    THEN [js EXCEPT ![id] = [f \in DOMAIN js[id] |->
              IF f \in DOMAIN updates THEN updates[f] ELSE js[id][f]]]
    ELSE js


\* ---------------------------------------------------------------- routines
EmptyResult == [successCount |-> 0, failureCount |-> 0, errors |-> <<>>, userErrors |-> <<>>]

\* the locals of one processJob invocation; itemsFailed, thrownItems, failedItems,
\* submitted, batches and paused record what happened in the run (item updates
\* that failed, items of batches that threw, which item failed how, the ids handed
\* to updateProductVendor, the slices taken by the loop, whether bulkUpdateVendor
\* took its 250 ms pause after the latest update)
NewRoutine(j) ==
    [job |-> j, pc |-> "getJob", productIds |-> <<>>, i |-> 0, k |-> 0,
     processedCount |-> 0, successCount |-> 0, failureCount |-> 0,
     allErrors |-> <<>>, result |-> EmptyResult, error |-> NullMsg,
     itemsFailed |-> 0, thrownItems |-> 0,
     failedItems |-> <<>>, submitted |-> <<>>, batches |-> <<>>, paused |-> FALSE]

RoutinesOf(j) == {r \in BagToSet(routines) : r.job = j}

\* variant: the slice is one item short
batchOf_Short(r) ==
    SubSeq(r.productIds, r.i + 1, Min(r.i + batchSize - 1, Len(r.productIds)))

\* variant: the slice is handed over back to front
batchOf_Backwards(r) ==
    [x \in 1..(Min(r.i + batchSize, Len(r.productIds)) - r.i) |->
        r.productIds[Min(r.i + batchSize, Len(r.productIds)) + 1 - x]]

batchOf(r) == SubSeq(r.productIds, r.i + 1, Min(r.i + batchSize, Len(r.productIds)))

batchNumber(r) == (r.i \div batchSize) + 1

\* head of the for loop of processJob: next batch, or the final update
LoopHead(r) ==
    IF r.i < Len(r.productIds)
    THEN [r EXCEPT !.pc = "item", !.k = 0, !.result = EmptyResult,
                   !.batches = Append(@, batchOf(r))]
    ELSE [r EXCEPT !.pc = "wFinal"]

Throw(r, msg) == [r EXCEPT !.pc = "wCatch", !.error = msg]

\* synchronous prefix of processJob, run inside the caller's segment
processJobStart(j) ==
    IF j \in processingJobs
    THEN UNCHANGED <<processingJobs, routines>>
    ELSE /\ processingJobs' = processingJobs \cup {j}
         /\ routines' = Put(routines, NewRoutine(j))

\* a storage operation of processJob throws
StorageFault(r, caught) ==
    /\ faultBudget > 0
    /\ faultBudget' = faultBudget - 1
    /\ routines' = Swap(routines, r, caught)
    /\ UNCHANGED jobs

\* ---------------------------------------------------------------- processJob
\* await storage.getBulkJob(jobId); job missing -> throw
GetJob(r) ==
    /\ r.pc = "getJob"
    /\ \/ StorageFault(r, Throw(r, StorageMsg))
       \/ /\ UNCHANGED <<faultBudget, jobs>>
          /\ routines' = Swap(routines, r,
                IF r.job \in DOMAIN jobs
                THEN [r EXCEPT !.pc = "wRunning", !.productIds = jobs[r.job].productIds]
                ELSE Throw(r, NotFoundMsg))
    /\ UNCHANGED <<processingJobs, calls, hasToken, callBudget, last, cancelMark>>
    /\ UNCHANGED <<throttleVars, clientVars, bulkVars>>

\* await storage.updateBulkJob(jobId, { status: 'RUNNING' })
WriteRunning(r) ==
    /\ r.pc = "wRunning"
    /\ \/ StorageFault(r, Throw(r, StorageMsg))
       \/ /\ UNCHANGED faultBudget
          /\ jobs' = updateBulkJob(jobs, r.job, [status |-> "RUNNING"])
          /\ routines' = Swap(routines, r, [r EXCEPT !.pc = "getSettings"])
    /\ UNCHANGED <<processingJobs, calls, hasToken, callBudget, last, cancelMark>>
    /\ UNCHANGED <<throttleVars, clientVars, bulkVars>>

\* await storage.getShopSettings(shopDomain); no token -> throw; else enter the loop
GetSettings(r) ==
    /\ r.pc = "getSettings"
    /\ \/ StorageFault(r, Throw(r, StorageMsg))
       \/ /\ UNCHANGED <<faultBudget, jobs>>
          /\ routines' = Swap(routines, r,
                IF hasToken THEN LoopHead(r) ELSE Throw(r, TokenMsg))
    /\ UNCHANGED <<processingJobs, calls, hasToken, callBudget, last, cancelMark>>
    /\ UNCHANGED <<throttleVars, clientVars, bulkVars>>

\* variant: an update that throws is not counted
bulkUpdateItem_DropsThrown(result, productId, outcome) ==
    CASE outcome = "ok" ->
            [result EXCEPT !.successCount = @ + 1]
      [] outcome = "userError" ->
            [result EXCEPT !.failureCount = @ + 1,
                           !.userErrors = Append(@, productId)]
      [] outcome = "userErrors2" ->
            [result EXCEPT !.failureCount = @ + 1,
                           !.userErrors = Append(Append(@, productId), productId)]
      [] OTHER -> result

\* one iteration of the for loop of ShopifyService.bulkUpdateVendor: the update
\* succeeded, returned one or two userErrors, or threw
bulkUpdateItem(result, productId, outcome) ==
    CASE outcome = "ok" ->
            [result EXCEPT !.successCount = @ + 1]
      [] outcome = "userError" ->
            [result EXCEPT !.failureCount = @ + 1,
                           !.userErrors = Append(@, productId)]
      [] outcome = "userErrors2" ->
            [result EXCEPT !.failureCount = @ + 1,
                           !.userErrors = Append(Append(@, productId), productId)]
      [] OTHER ->
            [result EXCEPT !.failureCount = @ + 1,
                           !.errors = Append(@, productId)]

userErrorText(productId) == [kind |-> "user", ref |-> productId]

apiErrorText(productId) == [kind |-> "api", ref |-> productId]

batchErrorText(b) == [kind |-> "batch", ref |-> b]

\* variant: validation errors are left out of the digest
userErrorTexts_None(ids) == <<>>

userErrorTexts(ids) == [x \in 1..Len(ids) |-> userErrorText(ids[x])]

apiErrorTexts(ids) == [x \in 1..Len(ids) |-> apiErrorText(ids[x])]

\* variant: progress advances by the nominal batch size, not by batch.length
addBatchResult_NominalSize(r, result) ==
    [r EXCEPT !.successCount = @ + result.successCount,
              !.failureCount = @ + result.failureCount,
              !.processedCount = @ + batchSize,
              !.allErrors = @ \o userErrorTexts(result.userErrors)
                              \o apiErrorTexts(result.errors),
              !.result = result,
              !.pc = "wProgress"]

\* processJob after bulkUpdateVendor returned: totals, digest entries
addBatchResult(r, result) ==
    [r EXCEPT !.successCount = @ + result.successCount,
              !.failureCount = @ + result.failureCount,
              !.processedCount = @ + Len(batchOf(r)),
              !.allErrors = @ \o userErrorTexts(result.userErrors)
                              \o apiErrorTexts(result.errors),
              !.result = result,
              !.pc = "wProgress"]

\* processJob's catch around one batch
batchCatch(r) ==
    [r EXCEPT !.failureCount = @ + Len(batchOf(r)),
              !.processedCount = @ + Len(batchOf(r)),
              !.allErrors = Append(@, batchErrorText(batchNumber(r))),
              !.thrownItems = @ + Len(batchOf(r))]

\* variant: the loop steps over a batch
nextBatch_SkipsOne(r) == LoopHead([r EXCEPT !.i = @ + 2 * batchSize])

nextBatch(r) == LoopHead([r EXCEPT !.i = @ + batchSize])

Outcomes == {"ok", "userError", "error"}

\* productIds.indexOf(productId), counted from 1
indexOf(ids, id) == CHOOSE x \in 1..Len(ids) : ids[x] = id /\ \A y \in 1..(x - 1) : ids[y] # id

\* bulkUpdateVendor: the setTimeout of 250 ms is reached when the update did not
\* throw, and taken if (productIds.indexOf(productId) < productIds.length - 1)
pauseAfter(ids, productId, outcome) ==
    outcome # "error" /\ indexOf(ids, productId) < Len(ids)

\* updateProductVendor for the next id of the batch (with its retries and the
\* pause that follows it), counted by bulkUpdateVendor; after the last id of the
\* batch bulkUpdateVendor returns to processJob, which adds up the batch
ItemCall(r) ==
    /\ r.pc = "item"
    /\ \E outcome \in Outcomes :
         LET productId == batchOf(r)[r.k + 1]
             res == bulkUpdateItem(r.result, productId, outcome)
             fault == IF outcome = "ok" THEN 0 ELSE 1
             stepped == [r EXCEPT !.k = @ + 1, !.result = res,
                                  !.itemsFailed = @ + fault,
                                  !.submitted = Append(@, productId),
                                  !.paused = pauseAfter(batchOf(r), productId, outcome),
                                  !.failedItems = IF outcome = "ok" THEN @
                                                  ELSE Append(@, [productId |-> productId,
                                                                  outcome |-> outcome])]
         IN /\ faultBudget >= fault
            /\ faultBudget' = faultBudget - fault
            /\ routines' = Swap(routines, r,
                  IF stepped.k < Len(batchOf(r)) THEN stepped
                  ELSE addBatchResult(stepped, res))
    /\ UNCHANGED <<jobs, processingJobs, calls, hasToken, callBudget, last, cancelMark>>
    /\ UNCHANGED <<throttleVars, clientVars, bulkVars>>

\* await storage.updateBulkJob(jobId, { processedCount }); a throw lands in the batch catch
WriteProgress(r) ==
    /\ r.pc = "wProgress"
    /\ \/ StorageFault(r, nextBatch(batchCatch(r)))
       \/ /\ UNCHANGED faultBudget
          /\ jobs' = updateBulkJob(jobs, r.job, [processedCount |-> r.processedCount])
          /\ routines' = Swap(routines, r, nextBatch(r))
    /\ UNCHANGED <<processingJobs, calls, hasToken, callBudget, last, cancelMark>>
    /\ UNCHANGED <<throttleVars, clientVars, bulkVars>>

finalUpdate(r) ==
    [status |-> finalStatusOf(r.failureCount),
     processedCount |-> r.processedCount,
     errorMessage |-> errorMessageOf(r.failureCount, r.allErrors),
     completedAt |-> "set"]

\* the final storage.updateBulkJob of processJob
WriteFinal(r) ==
    /\ r.pc = "wFinal"
    /\ \/ StorageFault(r, Throw(r, StorageMsg))
       \/ /\ UNCHANGED faultBudget
          /\ jobs' = updateBulkJob(jobs, r.job, finalUpdate(r))
          /\ routines' = Swap(routines, r, [r EXCEPT !.pc = "finally"])
    /\ UNCHANGED <<processingJobs, calls, hasToken, callBudget, last, cancelMark>>
    /\ UNCHANGED <<throttleVars, clientVars, bulkVars>>

\* variant: the catch records the message but not the status
catchUpdate_KeepsStatus(r) == [errorMessage |-> r.error, completedAt |-> "set"]

catchUpdate(r) == [status |-> "FAILED", errorMessage |-> r.error, completedAt |-> "set"]

\* the outer catch of processJob: storage.updateBulkJob(jobId, { status: 'FAILED', ... });
\* when that update throws too, the exception leaves processJob through finally
WriteCatch(r) ==
    /\ r.pc = "wCatch"
    /\ \/ StorageFault(r, [r EXCEPT !.pc = "finally"])
       \/ /\ UNCHANGED faultBudget
          /\ jobs' = updateBulkJob(jobs, r.job, catchUpdate(r))
          /\ routines' = Swap(routines, r, [r EXCEPT !.pc = "finally"])
    /\ UNCHANGED <<processingJobs, calls, hasToken, callBudget, last, cancelMark>>
    /\ UNCHANGED <<throttleVars, clientVars, bulkVars>>

\* variant: the routine returns without releasing the guard
Finally_KeepsGuard(r) ==
    /\ r.pc = "finally"
    /\ routines' = Drop(routines, r)
    /\ UNCHANGED <<jobs, processingJobs, calls, hasToken, callBudget, faultBudget, last, cancelMark>>
    /\ UNCHANGED <<throttleVars, clientVars, bulkVars>>

\* finally { this.processingJobs.delete(jobId) }
Finally(r) ==
    /\ r.pc = "finally"
    /\ processingJobs' = processingJobs \ {r.job}
    /\ routines' = Drop(routines, r)
    /\ UNCHANGED <<jobs, calls, hasToken, callBudget, faultBudget, last, cancelMark>>
    /\ UNCHANGED <<throttleVars, clientVars, bulkVars>>

\* ---------------------------------------------------------------- JobHandle calls
\* a suspended JobHandle call: seen is the status of the job record it has read
NewCall(op, j, pc, seen) == [op |-> op, job |-> j, pc |-> pc, seen |-> seen]

Outcome(op, j, result) == [op |-> op, job |-> j, result |-> result]

\* variant: the schema accepts an empty productIds array
schemaCheck_NoMin(n) == "ok"

\* schema.parse(req.body): productIds is z.array(z.string()).min(1)
schemaCheck(n) == IF n >= 1 THEN "ok" ELSE "Invalid request data"

\* createJob: await storage.createBulkJob(jobData)
CreateInsert(j, n) ==
    /\ j \notin DOMAIN jobs
    /\ jobs' = createBulkJob(jobs, j, n)
    /\ calls' = Put(calls, NewCall("create", j, "start", createBulkJob(jobs, j, n)[j].status))
    /\ UNCHANGED <<processingJobs, routines, hasToken, callBudget, faultBudget, last, cancelMark>>
    /\ UNCHANGED <<throttleVars, clientVars, bulkVars>>

\* POST /api/bulk-update-vendor with n product ids: a body the schema refuses is
\* answered 400 before anything else runs, any other goes on to createJob (the
\* refused requests count among the clients' requests of callBudget)
BulkUpdateVendor(j, n) ==
    IF schemaCheck(n) = "ok"
    THEN CreateInsert(j, n)
    ELSE /\ callBudget > 0
         /\ callBudget' = callBudget - 1
         /\ last' = Outcome("create", "none", schemaCheck(n))
         /\ UNCHANGED <<jobs, processingJobs, routines, calls, hasToken, faultBudget, cancelMark>>
         /\ UNCHANGED <<throttleVars, clientVars, bulkVars>>

\* createJob: this.processJob(job.id).catch(...); return job
CreateStart(c) ==
    /\ c.op = "create" /\ c.pc = "start"
    /\ processJobStart(c.job)
    /\ calls' = Drop(calls, c)
    /\ last' = Outcome("create", c.job, "ok")
    /\ UNCHANGED <<jobs, hasToken, callBudget, faultBudget, cancelMark>>
    /\ UNCHANGED <<throttleVars, clientVars, bulkVars>>

\* variant: the RUNNING check is missing
retryCheck_NoRunningCheck(js, j) ==
    IF j \notin DOMAIN js THEN "Job not found" ELSE "accepted"

retryCheck(js, j) ==
    IF j \notin DOMAIN js THEN "Job not found"
    ELSE IF js[j].status = "RUNNING" THEN "Job is currently running"
    ELSE "accepted"

\* retryJob: await storage.getBulkJob(jobId) and the two checks
RetryRead(j) ==
    /\ callBudget > 0
    /\ callBudget' = callBudget - 1
    /\ LET verdict == retryCheck(jobs, j)
       IN IF verdict = "accepted"
          THEN /\ calls' = Put(calls, NewCall("retry", j, "write", jobs[j].status))
               /\ cancelMark' = [cancelMark EXCEPT ![j] = -1]
               /\ UNCHANGED last
          ELSE /\ last' = Outcome("retry", j, verdict)
               /\ UNCHANGED <<calls, cancelMark>>
    /\ UNCHANGED <<jobs, processingJobs, routines, hasToken, faultBudget>>
    /\ UNCHANGED <<throttleVars, clientVars, bulkVars>>

\* variant: the counters are not reset
retryUpdate_KeepsCount ==
    [status |-> "PENDING", errorMessage |-> NullMsg, completedAt |-> "null"]

retryUpdate ==
    [status |-> "PENDING", processedCount |-> 0, errorMessage |-> NullMsg, completedAt |-> "null"]

\* retryJob: await storage.updateBulkJob(jobId, { status: 'PENDING', ... })
RetryWrite(c) ==
    /\ c.op = "retry" /\ c.pc = "write"
    /\ jobs' = updateBulkJob(jobs, c.job, retryUpdate)
    /\ cancelMark' = [cancelMark EXCEPT ![c.job] = -1]
    /\ calls' = Swap(calls, c, [c EXCEPT !.pc = "start"])
    /\ UNCHANGED <<processingJobs, routines, hasToken, callBudget, faultBudget, last>>
    /\ UNCHANGED <<throttleVars, clientVars, bulkVars>>

\* retryJob: this.processJob(jobId).catch(...); return updatedJob
RetryStart(c) ==
    /\ c.op = "retry" /\ c.pc = "start"
    /\ processJobStart(c.job)
    /\ calls' = Drop(calls, c)
    /\ last' = Outcome("retry", c.job, "ok")
    /\ UNCHANGED <<jobs, hasToken, callBudget, faultBudget, cancelMark>>
    /\ UNCHANGED <<throttleVars, clientVars, bulkVars>>

\* variant: the status check is missing
cancelCheck_NoStatusCheck(js, j) ==
    IF j \notin DOMAIN js THEN "Job not found" ELSE "accepted"

cancelCheck(js, j) ==
    IF j \notin DOMAIN js THEN "Job not found"
    ELSE IF js[j].status # "RUNNING" /\ js[j].status # "PENDING"
         THEN "Job cannot be cancelled in current status"
    ELSE "accepted"

\* cancelJob: await storage.getBulkJob(jobId), the two checks, processingJobs.delete
CancelRead(j) ==
    /\ callBudget > 0
    /\ callBudget' = callBudget - 1
    /\ LET verdict == cancelCheck(jobs, j)
       IN IF verdict = "accepted"
          THEN /\ calls' = Put(calls, NewCall("cancel", j, "write", jobs[j].status))
               /\ processingJobs' = processingJobs \ {j}
               /\ UNCHANGED last
          ELSE /\ last' = Outcome("cancel", j, verdict)
               /\ UNCHANGED <<calls, processingJobs>>
    /\ UNCHANGED <<jobs, routines, hasToken, faultBudget, cancelMark>>
    /\ UNCHANGED <<throttleVars, clientVars, bulkVars>>

cancelUpdate == [status |-> "FAILED", errorMessage |-> CancelMsg, completedAt |-> "set"]

\* cancelJob: return storage.updateBulkJob(jobId, { status: 'FAILED', ... })
CancelWrite(c) ==
    /\ c.op = "cancel" /\ c.pc = "write"
    /\ jobs' = updateBulkJob(jobs, c.job, cancelUpdate)
    /\ cancelMark' = [cancelMark EXCEPT ![c.job] = jobs[c.job].processedCount]
    /\ calls' = Drop(calls, c)
    /\ last' = Outcome("cancel", c.job, "ok")
    /\ UNCHANGED <<processingJobs, routines, hasToken, callBudget, faultBudget>>
    /\ UNCHANGED <<throttleVars, clientVars, bulkVars>>

\* ---------------------------------------------------------------- RateLimiter
\* the exported instances
Limiters == {"shopifyApi", "generalApi", "bulkOperation", "export"}

\* the config each instance is constructed with
config(l) ==
    CASE l = "shopifyApi"    -> [windowMs |-> 1000, maxRequests |-> 2]
      [] l = "generalApi"    -> [windowMs |-> 60 * 1000, maxRequests |-> 100]
      [] l = "bulkOperation" -> [windowMs |-> 60 * 1000, maxRequests |-> 5]
      [] l = "export"        -> [windowMs |-> 60 * 60 * 1000, maxRequests |-> 10]

\* the keys generateKey yields (shop domains or client addresses)
Keys == {"shopA", "shopB"}

\* a key the map does not hold
NoLog == [present |-> FALSE, count |-> 0, resetTime |-> 0]

RequestLog(count, resetTime) == [present |-> TRUE, count |-> count, resetTime |-> resetTime]

\* variant: the quotient is rounded down
Ceil_Floor(a, b) == a \div b

\* Math.ceil(a / b) for a >= 0, b > 0
Ceil(a, b) == (a + b - 1) \div b

Max(a, b) == IF a > b THEN a ELSE b

\* variant: a window is replaced only after its reset time, not at it
windowAt_AfterReset(log, t, windowMs) ==
    IF ~log.present \/ log.resetTime < t THEN RequestLog(0, t + windowMs) ELSE log

\* the entry middleware counts in: the stored one, or a fresh one when the key
\* has none or its resetTime has passed
windowAt(log, t, windowMs) ==
    IF ~log.present \/ log.resetTime <= t THEN RequestLog(0, t + windowMs) ELSE log

\* variant: the request that reaches maxRequests is refused already
overLimit_AtMax(count, maxRequests) == count >= maxRequests

overLimit(count, maxRequests) == count > maxRequests

\* variant: all instances write into one map
setLog_SharedMap(reqs, l, k, log) == [x \in DOMAIN reqs |-> [reqs[x] EXCEPT ![k] = log]]

\* this.requests.set(key, requestLog) and the count++ on the stored object
setLog(reqs, l, k, log) == [reqs EXCEPT ![l][k] = log]

\* what a middleware call did, and at which instant
Reply(l, k, found, status, retryAfter, remaining) ==
    [limiter |-> l, key |-> k, found |-> found, status |-> status,
     retryAfter |-> retryAfter, remaining |-> remaining, at |-> now]

NoReply == [Reply("none", "none", NoLog, "none", 0, 0) EXCEPT !.at = 0]

\* the entry a middleware call leaves for a key whose entry was log
countIn(log, l) == [windowAt(log, now, config(l).windowMs) EXCEPT !.count = @ + 1]

\* the function middleware() returns, called for a request with key k
Middleware(l, k) ==
    /\ checkBudget > 0
    /\ checkBudget' = checkBudget - 1
    /\ unswept' = setLog(unswept, l, k, countIn(unswept[l][k], l))
    /\ LET cfg == config(l)
           fresh == windowAt(requests[l][k], now, cfg.windowMs)
           requestLog == [fresh EXCEPT !.count = @ + 1]
       IN /\ requests' = setLog(requests, l, k, requestLog)
          /\ reply' = IF overLimit(requestLog.count, cfg.maxRequests)
                      THEN Reply(l, k, requests[l][k], "429",
                                 Ceil(requestLog.resetTime - now, 1000), 0)
                      ELSE Reply(l, k, requests[l][k], "next", 0,
                                 Max(0, cfg.maxRequests - requestLog.count))
    /\ UNCHANGED <<now, incoming, jobVars, clientVars, bulkVars>>

\* variant: the sweep also removes the windows that end within the next millisecond
Cleanup_Early(l) ==
    /\ requests' = [requests EXCEPT ![l] =
            [k \in Keys |-> IF requests[l][k].present /\ requests[l][k].resetTime <= now + 1
                            THEN NoLog ELSE requests[l][k]]]
    /\ UNCHANGED <<now, reply, checkBudget, unswept, incoming, jobVars, clientVars, bulkVars>>

\* cleanup(), run by the interval timer of instance l
Cleanup(l) ==
    /\ requests' = [requests EXCEPT ![l] =
            [k \in Keys |-> IF requests[l][k].present /\ requests[l][k].resetTime <= now
                            THEN NoLog ELSE requests[l][k]]]
    /\ UNCHANGED <<now, reply, checkBudget, unswept, incoming, jobVars, clientVars, bulkVars>>

\* the instants the clock is looked at next: the next millisecond, and the last
\* millisecond before and the very millisecond of a stored resetTime
Instants ==
    {now + 1} \cup
    {t \in UNION {IF requests[l][k].present
                    THEN {requests[l][k].resetTime - 1, requests[l][k].resetTime}
                    ELSE {} : l \in Limiters, k \in Keys} : t > now}

\* time passes
Tick(t) ==
    /\ checkBudget > 0
    /\ checkBudget' = checkBudget - 1
    /\ now' = t
    /\ UNCHANGED <<requests, reply, unswept, incoming, jobVars, clientVars, bulkVars>>

\* ---------------------------------------------------------------- RateLimiter keys
\* the shops (tenants) and the client addresses of the requests
Shops == {"shopA", "shopB"}

Addresses == {"ip1", "ip2"}

\* a part of a request that is absent
Absent == "absent"

\* the parts of a request generateKey can look at, and the query string, where
\* GET routes carry shopDomain
HttpRequest(header, body, query, ip) ==
    [header |-> header, body |-> body, query |-> query, ip |-> ip]

\* the requests of one shop at most: the shop domain is carried in the
\* x-shop-domain header, in the body, in the query string, in several of them
\* or nowhere
HttpRequests ==
    {HttpRequest(h, b, q, ip) :
        h \in Shops \cup {Absent}, b \in Shops \cup {Absent},
        q \in Shops \cup {Absent}, ip \in Addresses}

OneShop(req) == Cardinality({req.header, req.body, req.query} \ {Absent}) <= 1

\* req.headers['x-shop-domain'] || req.body?.shopDomain, then
\* shopDomain || req.ip
generateKey(req) ==
    LET shopDomain == IF req.header # Absent THEN req.header ELSE req.body
    IN IF shopDomain # Absent THEN shopDomain ELSE req.ip

\* no request is looked at
NoIncoming == [reqs |-> <<>>, keys |-> <<>>]

\* middleware() derives the key of the next request
GenerateKey ==
    /\ Len(incoming.keys) < Len(incoming.reqs)
    /\ incoming' = [incoming EXCEPT
                        !.keys = Append(@, generateKey(incoming.reqs[Len(incoming.keys) + 1]))]
    /\ UNCHANGED <<requests, now, reply, checkBudget, unswept, jobVars, clientVars, bulkVars>>

\* ---------------------------------------------------------------- ShopifyService requests
\* maxRetries = 3, the default of makeGraphQLRequestWithRetry
maxRetries == 3

\* a value that is undefined
Undefined == -1

\* the Retry-After header of a response: absent, or a number of seconds
NoHeader == [form |-> "none", seconds |-> 0]

SecondsHeader(t) == [form |-> "seconds", seconds |-> t]

\* the seconds the remote service advertises
RetryAfterSeconds == {0, 2}

\* what fetch and response.json() can come back with
Response(kind, status, header) == [kind |-> kind, status |-> status, retryAfter |-> header]

Responses ==
    {Response("ok", 200, NoHeader), Response("graphql", 200, NoHeader),
     Response("network", 0, NoHeader)}
    \cup {Response("http", st, NoHeader) : st \in {400, 404, 429, 500}}
    \cup {Response("http", st, SecondsHeader(t)) : st \in {429, 503}, t \in RetryAfterSeconds}

NoResponse == Response("none", 0, NoHeader)

\* the Error makeGraphQLRequest throws for a response that is not a success:
\* 'Shopify API error: <status>' with retryAfter = parseInt(header) * 1000 on a
\* 429 that carries the header, 'GraphQL errors: ...', or what fetch threw
errorOf(resp) ==
    [kind |-> IF resp.kind = "http" THEN "Shopify API error" ELSE resp.kind,
     status |-> IF resp.kind = "http" THEN resp.status ELSE 0,
     retryAfter |-> IF resp.kind = "http" /\ resp.status = 429 /\ resp.retryAfter.form # "none"
                    THEN resp.retryAfter.seconds * 1000 ELSE Undefined]

NoError == [kind |-> "none", status |-> 0, retryAfter |-> Undefined]

\* variant: every error is retried
noRetry_Never(error) == FALSE

\* status >= 400 && status < 500 && status !== 429 on a 'Shopify API error:'
noRetry(error) ==
    /\ error.kind = "Shopify API error"
    /\ error.status >= 400 /\ error.status < 500 /\ error.status # 429

\* variant: the loop breaks one attempt later
finalAttempt_OneMore(attempt) == attempt = maxRetries + 1

\* attempt === maxRetries
finalAttempt(attempt) == attempt = maxRetries

\* Math.random() * 500
Jitters == {0, 250, 499}

Pow2(n) == IF n = 0 THEN 1 ELSE IF n = 1 THEN 2 ELSE 4

Delay(kind, ms) == [kind |-> kind, ms |-> ms]

\* variant: the base delay stays at one second
delayOf_FlatBase(error, attempt, jitter) ==
    IF error.retryAfter # Undefined /\ error.retryAfter # 0
    THEN Delay("retryAfter", error.retryAfter)
    ELSE Delay("backoff", 1000 + jitter)

\* if (retryAfter && typeof retryAfter === 'number') delay = retryAfter
\* else delay = Math.pow(2, attempt - 1) * 1000 + jitter
delayOf(error, attempt, jitter) ==
    IF error.retryAfter # Undefined /\ error.retryAfter # 0
    THEN Delay("retryAfter", error.retryAfter)
    ELSE Delay("backoff", Pow2(attempt - 1) * 1000 + jitter)

\* the locals of one makeGraphQLRequestWithRetry call; dispatched, delays and
\* response record what the call has done and received
NewRequest ==
    [pc |-> "idle", attempt |-> 0, lastError |-> NoError,
     dispatched |-> 0, delays |-> <<>>, response |-> NoResponse]

\* updateProductVendor calls makeGraphQLRequestWithRetry: attempt = 1
StartRequest ==
    /\ request.pc = "idle"
    /\ request' = [request EXCEPT !.pc = "dispatch", !.attempt = 1]
    /\ UNCHANGED <<jobVars, throttleVars, bulkVars>>

\* one pass of the loop body: makeGraphQLRequest comes back with resp
Dispatch(resp, jitter) ==
    /\ request.pc = "dispatch"
    /\ LET sent == [request EXCEPT !.dispatched = @ + 1, !.response = resp]
           error == errorOf(resp)
           failed == [sent EXCEPT !.lastError = error]
       IN request' =
            IF resp.kind = "ok" THEN [sent EXCEPT !.pc = "returned"]
            ELSE IF noRetry(error) THEN [failed EXCEPT !.pc = "thrown"]
            ELSE IF finalAttempt(request.attempt) THEN [failed EXCEPT !.pc = "thrown"]
            ELSE [failed EXCEPT !.pc = "wait",
                                !.delays = Append(@, delayOf(error, request.attempt, jitter))]
    /\ UNCHANGED <<jobVars, throttleVars, bulkVars>>

\* the setTimeout of the delay fires: attempt++
Wake ==
    /\ request.pc = "wait"
    /\ request' = [request EXCEPT !.pc = "dispatch", !.attempt = @ + 1]
    /\ UNCHANGED <<jobVars, throttleVars, bulkVars>>

\* ---------------------------------------------------------------- bulkUpdateVendor
\* the product ids of the lists bulkUpdateVendor is called with
ProductIds == {"p1", "p2"}

\* the id lists, duplicates included
RECURSIVE ListsOf(_)
ListsOf(n) ==
    IF n = 0 THEN {<<>>}
    ELSE {Append(l, p) : l \in ListsOf(n - 1), p \in ProductIds}

ProductIdLists == UNION {ListsOf(n) : n \in 1..MaxIds}

BulkOutcomes == Outcomes \cup {"userErrors2"}

Event(kind, index) == [kind |-> kind, index |-> index]

\* the locals of one bulkUpdateVendor call; log and outcomes record the updates
\* made, the pauses taken and how each update ended
NewBulk(ids) ==
    [pc |-> "item", productIds |-> ids, k |-> 0, result |-> EmptyResult,
     log |-> <<>>, outcomes |-> <<>>]

\* the for-of loop moves to the next id, or the call returns the result
nextItem(b) ==
    [b EXCEPT !.k = @ + 1,
              !.pc = IF b.k + 1 < Len(b.productIds) THEN "item" ELSE "returned"]

\* await updateProductVendor for the next id ends with outcome; the counting of
\* the try block or of the catch block
UpdateItem(outcome) ==
    /\ bulk.pc = "item"
    /\ LET productId == bulk.productIds[bulk.k + 1]
           counted == [bulk EXCEPT
                          !.result = bulkUpdateItem(@, productId, outcome),
                          !.log = Append(@, Event("update", bulk.k + 1)),
                          !.outcomes = Append(@, outcome)]
       IN bulk' =
            IF pauseAfter(bulk.productIds, productId, outcome)
            THEN [counted EXCEPT !.pc = "pause"]
            ELSE nextItem(counted)
    /\ UNCHANGED <<jobVars, throttleVars, clientVars>>

\* the setTimeout of 250 ms fires
Pause ==
    /\ bulk.pc = "pause"
    /\ bulk' = nextItem([bulk EXCEPT !.log = Append(@, Event("pause", bulk.k + 1))])
    /\ UNCHANGED <<jobVars, throttleVars, clientVars>>

\* ---------------------------------------------------------------- the system
\* no request reaches a RateLimiter
ThrottleIdle ==
    /\ requests = [l \in Limiters |-> [k \in Keys |-> NoLog]]
    /\ unswept = requests
    /\ incoming = NoIncoming
    /\ now = 0
    /\ reply = NoReply
    /\ checkBudget = 0

\* no makeGraphQLRequestWithRetry call is followed
ClientIdle == request = [NewRequest EXCEPT !.pc = "off"]

\* no bulkUpdateVendor call is followed
BulkIdle == bulk = [NewBulk(<<>>) EXCEPT !.pc = "off"]

\* no job is created
JobsIdle ==
    /\ jobs = [x \in {} |-> newJob(0)]
    /\ processingJobs = {}
    /\ routines = EmptyBag
    /\ calls = EmptyBag
    /\ hasToken = TRUE
    /\ callBudget = 0
    /\ faultBudget = 0
    /\ last = Outcome("none", "none", "none")
    /\ cancelMark = [j \in JobIds |-> -1]

Init ==
    /\ jobs = [x \in {} |-> newJob(0)]
    /\ processingJobs = {}
    /\ routines = EmptyBag
    /\ calls = EmptyBag
    /\ hasToken \in BOOLEAN
    /\ \E c \in 0..MaxEvents : callBudget = c /\ faultBudget = MaxEvents - c
    /\ last = Outcome("none", "none", "none")
    /\ cancelMark = [j \in JobIds |-> -1]
    /\ ThrottleIdle /\ ClientIdle /\ BulkIdle

Next ==
    \/ \E j \in JobIds, n \in RequestCounts : BulkUpdateVendor(j, n)
    \/ \E c \in BagToSet(calls) : CreateStart(c)
    \/ \E j \in JobIds : RetryRead(j)
    \/ \E c \in BagToSet(calls) : RetryWrite(c)
    \/ \E c \in BagToSet(calls) : RetryStart(c)
    \/ \E j \in JobIds : CancelRead(j)
    \/ \E c \in BagToSet(calls) : CancelWrite(c)
    \/ \E r \in BagToSet(routines) : GetJob(r)
    \/ \E r \in BagToSet(routines) : WriteRunning(r)
    \/ \E r \in BagToSet(routines) : GetSettings(r)
    \/ \E r \in BagToSet(routines) : ItemCall(r)
    \/ \E r \in BagToSet(routines) : WriteProgress(r)
    \/ \E r \in BagToSet(routines) : WriteFinal(r)
    \/ \E r \in BagToSet(routines) : WriteCatch(r)
    \/ \E r \in BagToSet(routines) : Finally(r)

Spec == Init /\ [][Next]_vars

\* the same system when nothing fails: no item update fails, no storage
\* operation throws; only the clients' calls interleave with the routines
InitCalls ==
    /\ jobs = [x \in {} |-> newJob(0)]
    /\ processingJobs = {}
    /\ routines = EmptyBag
    /\ calls = EmptyBag
    /\ hasToken \in BOOLEAN
    /\ callBudget = MaxEvents
    /\ faultBudget = 0
    /\ last = Outcome("none", "none", "none")
    /\ cancelMark = [j \in JobIds |-> -1]
    /\ ThrottleIdle /\ ClientIdle /\ BulkIdle

SpecCalls == InitCalls /\ [][Next]_vars

\* the RateLimiter instances alone: requests arrive at them while time passes
InitThrottle ==
    /\ requests = [l \in Limiters |-> [k \in Keys |-> NoLog]]
    /\ unswept = requests
    /\ incoming = NoIncoming
    /\ now = 0
    /\ reply = NoReply
    /\ checkBudget = MaxChecks
    /\ JobsIdle /\ ClientIdle /\ BulkIdle

NextThrottle ==
    \/ \E l \in Limiters, k \in Keys : Middleware(l, k)
    \/ \E l \in Limiters : Cleanup(l)
    \/ \E t \in Instants : Tick(t)

SpecThrottle == InitThrottle /\ [][NextThrottle]_vars

\* one caller at the two instances with the smallest maxRequests, followed long
\* enough to be refused by either and to come back after the advertised wait
ComeBackLimiters == {"shopifyApi", "bulkOperation"}

\* the instant a refused caller that waits retryAfter seconds comes back
ComeBackInstants ==
    IF reply.status = "429" /\ reply.at + reply.retryAfter * 1000 > now
    THEN {reply.at + reply.retryAfter * 1000} ELSE {}

InitComeBack ==
    /\ requests = [l \in Limiters |-> [k \in Keys |-> NoLog]]
    /\ unswept = requests
    /\ incoming = NoIncoming
    /\ now = 0
    /\ reply = NoReply
    /\ checkBudget = MaxVisits
    /\ JobsIdle /\ ClientIdle /\ BulkIdle

NextComeBack ==
    \/ \E l \in ComeBackLimiters : Middleware(l, "shopA")
    \/ \E l \in ComeBackLimiters : Cleanup(l)
    \/ \E t \in Instants \cup ComeBackInstants : Tick(t)

SpecComeBack == InitComeBack /\ [][NextComeBack]_vars

\* two requests arrive one after the other and have their keys derived
InitKeys ==
    /\ requests = [l \in Limiters |-> [k \in Keys |-> NoLog]]
    /\ unswept = requests
    /\ incoming \in {[reqs |-> <<a, b>>, keys |-> <<>>] :
                        a \in {r \in HttpRequests : OneShop(r)},
                        b \in {r \in HttpRequests : OneShop(r)}}
    /\ now = 0
    /\ reply = NoReply
    /\ checkBudget = 0
    /\ JobsIdle /\ ClientIdle /\ BulkIdle

NextKeys == GenerateKey

SpecKeys == InitKeys /\ [][NextKeys]_vars

\* one makeGraphQLRequestWithRetry call alone, against every sequence of responses
InitClient ==
    /\ request = NewRequest
    /\ JobsIdle /\ ThrottleIdle /\ BulkIdle

NextClient ==
    \/ StartRequest
    \/ \E resp \in Responses, jitter \in Jitters : Dispatch(resp, jitter)
    \/ Wake

SpecClient == InitClient /\ [][NextClient]_vars

\* one bulkUpdateVendor call alone, on every id list and every outcome of its updates
InitBulk ==
    /\ bulk \in {NewBulk(ids) : ids \in ProductIdLists}
    /\ JobsIdle /\ ThrottleIdle /\ ClientIdle

NextBulk ==
    \/ \E outcome \in BulkOutcomes : UpdateItem(outcome)
    \/ Pause

SpecBulk == InitBulk /\ [][NextBulk]_vars

\* one run of a job in which up to MaxFailures item updates or storage operations
\* fail, and no client calls in
InitDigest ==
    /\ jobs = [x \in {} |-> newJob(0)]
    /\ processingJobs = {}
    /\ routines = EmptyBag
    /\ calls = EmptyBag
    /\ hasToken = TRUE
    /\ callBudget = 0
    /\ faultBudget = MaxFailures
    /\ last = Outcome("none", "none", "none")
    /\ cancelMark = [j \in JobIds |-> -1]
    /\ ThrottleIdle /\ ClientIdle /\ BulkIdle

NextDigest ==
    \/ \E j \in JobIds : BulkUpdateVendor(j, MaxFailures)
    \/ \E c \in BagToSet(calls) : CreateStart(c)
    \/ \E r \in BagToSet(routines) : GetJob(r)
    \/ \E r \in BagToSet(routines) : WriteRunning(r)
    \/ \E r \in BagToSet(routines) : GetSettings(r)
    \/ \E r \in BagToSet(routines) : ItemCall(r)
    \/ \E r \in BagToSet(routines) : WriteProgress(r)
    \/ \E r \in BagToSet(routines) : WriteFinal(r)
    \/ \E r \in BagToSet(routines) : WriteCatch(r)
    \/ \E r \in BagToSet(routines) : Finally(r)

SpecDigest == InitDigest /\ [][NextDigest]_vars

\* ---------------------------------------------------------------- steps, as seen from outside
Terminal == {"SUCCESS", "FAILED"}

ActiveCount(j) == BagCardinality([r \in RoutinesOf(j) |-> routines[r]])

\* the step is a storage write of a processing routine (no call moves)
RoutineStep == calls' = calls /\ routines' # routines

\* the step is the storage write of the cancelJob call c
CancelWriteBy(c) == c.op = "cancel" /\ c.pc = "write" /\ calls' = Drop(calls, c)

\* the step is the storage write of the retryJob call c
RetryWriteBy(c) ==
    c.op = "retry" /\ c.pc = "write" /\ calls' = Swap(calls, c, [c EXCEPT !.pc = "start"])

\* the step is the re-invocation of processJob by the retryJob call c
RetryStartBy(c) == c.op = "retry" /\ c.pc = "start" /\ calls' = Drop(calls, c)

\* the step is the final update of routine r, after its batch loop
FinalWriteBy(r) ==
    r.pc = "wFinal" /\ routines' = Swap(routines, r, [r EXCEPT !.pc = "finally"])

\* the step is a retryJob call on j arriving and reading the job record
RetryReadOn(j) ==
    /\ callBudget' = callBudget - 1
    /\ \/ calls' # calls /\ \E c \in BagToSet(calls') : c.op = "retry" /\ c.pc = "write"
                                  /\ c.job = j /\ calls' = Put(calls, c)
       \/ calls' = calls /\ last'.op = "retry" /\ last'.job = j

\* the step is a cancelJob call on j arriving and reading the job record
CancelReadOn(j) ==
    /\ callBudget' = callBudget - 1
    /\ \/ calls' # calls /\ \E c \in BagToSet(calls') : c.op = "cancel" /\ c.pc = "write"
                                  /\ c.job = j /\ calls' = Put(calls, c)
       \/ calls' = calls /\ last'.op = "cancel" /\ last'.job = j

\* the step is the insert of createJob for job id j
CreateInsertOn(j) == j \notin DOMAIN jobs /\ j \in DOMAIN jobs'

\* the step is createJob returning the record of the call c
CreateReturnBy(c) == c.op = "create" /\ c.pc = "start" /\ calls' = Drop(calls, c)

\* the step is a create request being answered 'Invalid request data'
CreateRefused ==
    /\ callBudget' = callBudget - 1 /\ calls' = calls
    /\ last' = Outcome("create", "none", "Invalid request data")

\* the step is a middleware call of instance l for key k
MiddlewareOn(l, k) ==
    /\ checkBudget' = checkBudget - 1 /\ now' = now
    /\ reply'.limiter = l /\ reply'.key = k

\* the key has a window that is still open
OpenWindow(l, k) == requests[l][k].present /\ requests[l][k].resetTime > now

\* the calls made for the key in its open window
CallsInWindow(l, k) == IF OpenWindow(l, k) THEN requests[l][k].count ELSE 0

\* the step is one dispatch of makeGraphQLRequest coming back
DispatchStep == request.pc = "dispatch" /\ request'.dispatched = request.dispatched + 1

\* the response is an HTTP 4xx other than 429
ClientError(resp) ==
    resp.kind = "http" /\ resp.status >= 400 /\ resp.status < 500 /\ resp.status # 429

\* the error the call holds is the one of the response it received last
SurfacesResponse(req) ==
    /\ req.pc = "thrown"
    /\ req.lastError.status = (IF req.response.kind = "http" THEN req.response.status ELSE 0)
    /\ req.lastError.kind = (IF req.response.kind = "http" THEN "Shopify API error"
                              ELSE req.response.kind)

\* the step takes routine r to r2
RoutineMoves(r, r2) == r2 # r /\ routines' = Swap(routines, r, r2)

\* the step is the update in the outer catch of routine r
CatchWriteBy(r) ==
    /\ r.pc = "wCatch" /\ faultBudget' = faultBudget
    /\ routines' = Swap(routines, r, [r EXCEPT !.pc = "finally"])

\* the step is routine r returning
FinallyBy(r) == r.pc = "finally" /\ routines' = Drop(routines, r)

RECURSIVE Flatten(_)
Flatten(ss) == IF ss = <<>> THEN <<>> ELSE Head(ss) \o Flatten(Tail(ss))

\* ---------------------------------------------------------------- claims
\* C1: at most one processing routine is active for a job id at any time (a
\* routine is active from passing the guard check of processJob until it returns).
C1_AtMostOneActive == \A j \in JobIds : ActiveCount(j) <= 1

\* C2: the persisted status changes only along PENDING -> RUNNING (routine),
\* RUNNING -> SUCCESS or FAILED (routine), PENDING or RUNNING -> FAILED
\* (cancelJob), SUCCESS or FAILED -> PENDING (retryJob).
C2_StatusEdges ==
    [][\A j \in DOMAIN jobs :
         LET old == jobs[j].status
             new == jobs'[j].status
         IN old # new =>
              \/ old = "PENDING" /\ new = "RUNNING" /\ RoutineStep
              \/ old = "RUNNING" /\ new \in Terminal /\ RoutineStep
              \/ old \in {"PENDING", "RUNNING"} /\ new = "FAILED"
                    /\ \E c \in BagToSet(calls) : c.job = j /\ CancelWriteBy(c)
              \/ old \in Terminal /\ new = "PENDING"
                    /\ \E c \in BagToSet(calls) : c.job = j /\ RetryWriteBy(c)]_vars

\* C3: after a successful cancelJob no further batch is processed: processedCount
\* never exceeds its value at cancellation time plus one batch.
C3_NoBatchAfterCancel ==
    \A j \in DOMAIN jobs :
        cancelMark[j] # -1 => jobs[j].processedCount <= cancelMark[j] + batchSize

\* C4: after a successful cancelJob the job stays FAILED with the cancellation
\* message and completedAt set, until a retryJob is accepted.
C4_CancelSticks ==
    \A j \in DOMAIN jobs :
        cancelMark[j] # -1 =>
            /\ jobs[j].status = "FAILED"
            /\ jobs[j].errorMessage = CancelMsg
            /\ jobs[j].completedAt = "set"

\* C5: the final status a routine writes after its batch loop is SUCCESS if and
\* only if no item update of the run failed and no batch of the run threw.
C5_FinalStatusIffNoFailure ==
    [][\A r \in BagToSet(routines) :
         FinalWriteBy(r) =>
            /\ jobs'[r.job].status \in Terminal
            /\ jobs'[r.job].status = "SUCCESS" <=> (r.itemsFailed = 0 /\ r.thrownItems = 0)]_vars

C5_Witness ==
    \E r \in BagToSet(routines) :
        /\ r.pc = "finally" /\ r.error = NullMsg
        /\ r.itemsFailed = 1 /\ r.successCount = MaxItems - 1
        /\ jobs[r.job].status = "FAILED"
        /\ jobs[r.job].errorMessage.kind = "digest"

C7_ProcessedCountMonotone ==
    [][\A j \in DOMAIN jobs :
         \/ jobs'[j].processedCount >= jobs[j].processedCount
         \/ \E c \in BagToSet(calls) : c.job = j /\ RetryWriteBy(c)]_vars

\* C8: 0 <= processedCount <= totalCount for every job, in every reachable state.
C8_ProcessedCountInRange ==
    \A j \in DOMAIN jobs :
        0 <= jobs[j].processedCount /\ jobs[j].processedCount <= jobs[j].totalCount

\* C9: retryJob on a RUNNING job throws 'Job is currently running', on an unknown
\* id 'Job not found'; in both cases the job records, the guard set, the routines
\* and the suspended calls are as before the call.
C9_RetryRejectedChangesNothing ==
    [][\A j \in JobIds :
         RetryReadOn(j) =>
            /\ j \notin DOMAIN jobs =>
                  /\ last' = Outcome("retry", j, "Job not found")
                  /\ UNCHANGED <<jobs, processingJobs, routines, calls>>
            /\ (j \in DOMAIN jobs /\ jobs[j].status = "RUNNING") =>
                  /\ last' = Outcome("retry", j, "Job is currently running")
                  /\ UNCHANGED <<jobs, processingJobs, routines, calls>>]_vars

C9_Witness ==
    /\ last = Outcome("retry", "j1", "Job is currently running")
    /\ jobs["j1"].status = "RUNNING"
    /\ ActiveCount("j1") = 1

\* C10 as stated: retryJob on a SUCCESS or FAILED job writes PENDING / 0 / no
\* digest / no completedAt, leaves the item list, target and totalCount alone, and
\* starts a new processing routine at the first item.
retryResets(old, new) ==
    new = [old EXCEPT !.status = "PENDING", !.processedCount = 0,
                      !.errorMessage = NullMsg, !.completedAt = "null"]

C10_RetryStartsRoutine ==
    [][\A c \in BagToSet(calls) :
         c.seen \in Terminal =>
            /\ RetryWriteBy(c) => retryResets(jobs[c.job], jobs'[c.job])
            /\ RetryStartBy(c) =>
                  /\ routines' = Put(routines, NewRoutine(c.job))
                  /\ last' = Outcome("retry", c.job, "ok")]_vars

\* C10 amended: as stated, except that the re-invoked processJob starts the new
\* routine only when the guard set does not hold the job id; when it does, no
\* routine is started and the call still succeeds.
C10_RetryStartsRoutineUnlessGuarded ==
    [][\A c \in BagToSet(calls) :
         c.seen \in Terminal =>
            /\ RetryWriteBy(c) => retryResets(jobs[c.job], jobs'[c.job])
            /\ RetryStartBy(c) =>
                  /\ last' = Outcome("retry", c.job, "ok")
                  /\ UNCHANGED jobs
                  /\ IF c.job \in processingJobs
                     THEN UNCHANGED <<routines, processingJobs>>
                     ELSE /\ routines' = Put(routines, NewRoutine(c.job))
                          /\ processingJobs' = processingJobs \cup {c.job}
                          /\ NewRoutine(c.job).i = 0 /\ NewRoutine(c.job).processedCount = 0]_vars

C10_Witness ==
    /\ last = Outcome("retry", "j1", "ok")
    /\ \E r \in BagToSet(routines) :
          /\ r.job = "j1" /\ r.pc = "item" /\ r.i = 0 /\ r.k = 0
          /\ r.productIds = jobs["j1"].productIds
    /\ jobs["j1"].status = "RUNNING"
    /\ jobs["j1"].processedCount = 0
    /\ jobs["j1"].totalCount = MaxItems
    /\ callBudget = MaxEvents - 1
\* C11: retryJob on a PENDING job is rejected and changes nothing (job records,
\* guard set, routines and suspended calls are as before the call), as for RUNNING.
C11_RetryRejectedWhenPending ==
    [][\A j \in JobIds :
         (RetryReadOn(j) /\ j \in DOMAIN jobs /\ jobs[j].status = "PENDING") =>
            /\ last'.op = "retry" /\ last'.job = j /\ last'.result # "ok"
            /\ UNCHANGED <<jobs, processingJobs, routines, calls>>]_vars

\* C12: cancelJob on a SUCCESS or FAILED job throws 'Job cannot be cancelled in
\* current status' and leaves the job records, the guard set, the routines and the
\* suspended calls as they were; a cancelJob that goes on to its update has read
\* PENDING or RUNNING.
C12_CancelRejectedWhenTerminal ==
    [][/\ \A j \in DOMAIN jobs :
            CancelReadOn(j) =>
               IF jobs[j].status \in Terminal
               THEN /\ last' = Outcome("cancel", j, "Job cannot be cancelled in current status")
                    /\ UNCHANGED <<jobs, processingJobs, routines, calls>>
               ELSE /\ calls' = Put(calls, NewCall("cancel", j, "write", jobs[j].status))
                    /\ UNCHANGED last
       /\ \A c \in BagToSet(calls) :
            CancelWriteBy(c) =>
               /\ c.seen \in {"PENDING", "RUNNING"}
               /\ last' = Outcome("cancel", c.job, "ok")]_vars

C12_Witness ==
    /\ last = Outcome("cancel", "j1", "Job cannot be cancelled in current status")
    /\ jobs["j1"].status = "SUCCESS"
    /\ jobs["j1"].processedCount = MaxItems
    /\ processingJobs = {}

\* C13: createJob inserts the job as PENDING with processedCount 0 and returns that
\* record (status PENDING) as soon as processJob has been started: the routine it
\* starts has processed nothing, the call returns normally, and no step of a
\* processing routine changes the outcome of a call.
C13_CreateReturnsPending ==
    [][/\ \A j \in JobIds :
            CreateInsertOn(j) =>
               /\ jobs'[j].status = "PENDING" /\ jobs'[j].processedCount = 0
               /\ UNCHANGED <<routines, processingJobs>>
       /\ \A c \in BagToSet(calls) :
            CreateReturnBy(c) =>
               /\ c.seen = "PENDING"
               /\ last' = Outcome("create", c.job, "ok")
               /\ UNCHANGED jobs
               /\ \/ UNCHANGED routines
                  \/ \E r \in BagToSet(routines') :
                        /\ routines' = Put(routines, r)
                        /\ r.job = c.job /\ r.pc = "getJob"
                        /\ r.i = 0 /\ r.processedCount = 0
       /\ RoutineStep => UNCHANGED last]_vars

C13_Witness ==
    /\ last = Outcome("create", "j1", "ok")
    /\ jobs["j1"].status = "FAILED"
    /\ jobs["j1"].errorMessage = TokenMsg
    /\ routines = EmptyBag

\* C14: a create request with an empty item list is answered with the validation
\* error: no job record is ever inserted with an empty item list, and the refused
\* request leaves the job records, the guard set and the routines as they were.
C14_EmptyCreateRefused ==
    [][/\ \A j \in JobIds :
            CreateInsertOn(j) =>
               /\ Len(jobs'[j].productIds) >= 1
               /\ jobs'[j].totalCount = Len(jobs'[j].productIds)
       /\ CreateRefused => UNCHANGED <<jobs, processingJobs, routines>>]_vars

C14_Witness ==
    /\ last = Outcome("create", "none", "Invalid request data")
    /\ jobs = [x \in {} |-> newJob(0)]
    /\ processingJobs = {} /\ routines = EmptyBag /\ calls = EmptyBag
    /\ callBudget = MaxEvents - 1

\* C15: with maxRequests = N, a call is admitted when fewer than N calls were made
\* for its key in the open window, and refused otherwise, with a retryAfter (in
\* seconds) that is positive and not longer than the window.
C15_AdmitsFirstN ==
    [][\A l \in Limiters, k \in Keys :
         MiddlewareOn(l, k) =>
            IF CallsInWindow(l, k) < config(l).maxRequests
            THEN reply'.status = "next"
            ELSE /\ reply'.status = "429"
                 /\ reply'.retryAfter > 0
                 /\ reply'.retryAfter * 1000 <= config(l).windowMs]_vars

C15_Witness ==
    /\ now = 0 /\ checkBudget = MaxChecks - 3
    /\ requests["shopifyApi"]["shopA"] = RequestLog(3, 1000)
    /\ reply.limiter = "shopifyApi" /\ reply.key = "shopA"
    /\ reply.status = "429" /\ reply.retryAfter = 1
    /\ reply.found = RequestLog(2, 1000)

\* C16: the first call at or after the stored window's resetTime is admitted and
\* replaces the window: count 1, resetTime now + windowMs, whatever the old count.
C16_ExpiredWindowReplaced ==
    [][\A l \in Limiters, k \in Keys :
         (MiddlewareOn(l, k) /\ requests[l][k].present /\ requests[l][k].resetTime <= now) =>
            /\ requests'[l][k] = RequestLog(1, now + config(l).windowMs)
            /\ reply'.status = "next"]_vars

C16_Witness ==
    /\ reply.limiter = "shopifyApi" /\ reply.key = "shopA" /\ reply.status = "next"
    /\ reply.found.present /\ reply.found.count > config("shopifyApi").maxRequests
    /\ reply.found.resetTime = now
    /\ requests["shopifyApi"]["shopA"] = RequestLog(1, now + 1000)

\* C17: a middleware call of one instance for one key leaves the entry of every
\* other key and of every other instance as it was, and with it what a call for
\* that key would be answered.
C17_IndependentCounters ==
    [][\A l \in Limiters, k \in Keys :
         MiddlewareOn(l, k) =>
            \A l2 \in Limiters, k2 \in Keys :
               (l2 # l \/ k2 # k) =>
                  /\ requests'[l2][k2] = requests[l2][k2]
                  /\ CallsInWindow(l2, k2)' = CallsInWindow(l2, k2)]_vars

C17_Witness ==
    /\ requests["shopifyApi"]["shopA"].count = 3
    /\ requests["shopifyApi"]["shopB"].count = 1
    /\ requests["bulkOperation"]["shopA"].count = 1
    /\ ~requests["bulkOperation"]["shopB"].present
    /\ reply.limiter = "shopifyApi" /\ reply.key = "shopB" /\ reply.status = "next"

\* C18: an attempt answered with a 4xx status other than 429 ends the call at once:
\* the error is thrown, no delay is taken and no further attempt is dispatched (a
\* call whose first attempt was answered so has dispatched exactly once).
C18_ClientErrorNotRetried ==
    [][/\ (DispatchStep /\ ClientError(request'.response)) =>
            /\ SurfacesResponse(request')
            /\ request'.delays = request.delays
            /\ request.attempt = 1 => request'.dispatched = 1
       /\ request.pc = "thrown" => request' = request]_vars

C18_Witness ==
    /\ request.pc = "thrown" /\ request.response = Response("http", 404, NoHeader)
    /\ request.dispatched = 1 /\ request.delays = <<>>

\* C19: an attempt below the ceiling answered 429 with Retry-After: T is followed
\* by a delay of exactly T seconds (no jitter, no exponential term), for every T
\* advertised, T = 0 included.
C19_RetryAfterVerbatim ==
    [][(/\ DispatchStep
        /\ request'.response.kind = "http" /\ request'.response.status = 429
        /\ request'.response.retryAfter.form = "seconds"
        /\ request.attempt < maxRetries) =>
            /\ request'.pc = "wait"
            /\ request'.delays =
                  Append(request.delays,
                         Delay("retryAfter", request'.response.retryAfter.seconds * 1000))]_vars

\* C20: one call dispatches at most maxRetries = 3 attempts; when attempt 3 fails
\* its error is thrown without a further delay; a success ends the call at once,
\* and a call that has returned or thrown dispatches nothing more.
C20_AtMostThreeAttempts ==
    [][/\ request'.dispatched <= maxRetries
       /\ (DispatchStep /\ request.attempt = maxRetries /\ request'.response.kind # "ok") =>
            /\ SurfacesResponse(request')
            /\ request'.delays = request.delays
       /\ (DispatchStep /\ request'.response.kind = "ok") =>
            /\ request'.pc = "returned"
            /\ request'.delays = request.delays
            /\ request'.lastError = request.lastError
       /\ request.pc \in {"returned", "thrown"} => request' = request]_vars

C20_Witness ==
    /\ request.pc = "thrown" /\ request.dispatched = maxRetries
    /\ Len(request.delays) = maxRetries - 1
    /\ request.delays[1].kind = "backoff" /\ request.delays[2].kind = "retryAfter"
    /\ request.response = Response("network", 0, NoHeader)
    /\ request.lastError.kind = "network"

\* C24: when exactly one item of a run returned a validation error and nothing
\* else failed, the final update writes FAILED with processedCount = totalCount,
\* failureCount 1 and a digest of exactly one entry, naming that item.
C24_SingleValidationFailure ==
    [][\A r \in BagToSet(routines) :
         (/\ FinalWriteBy(r)
          /\ r.thrownItems = 0 /\ Len(r.failedItems) = 1
          /\ r.failedItems[1].outcome = "userError") =>
            /\ jobs'[r.job].status = "FAILED"
            /\ jobs'[r.job].processedCount = jobs'[r.job].totalCount
            /\ r.failureCount = 1
            /\ jobs'[r.job].errorMessage =
                  [kind |-> "digest", text |-> "", failed |-> 1,
                   errors |-> <<userErrorText(r.failedItems[1].productId)>>,
                   more |-> FALSE]]_vars

C24_Witness ==
    \E r \in BagToSet(routines) :
        /\ r.pc = "finally"
        /\ r.failedItems = <<[productId |-> batchSize + 3, outcome |-> "userError"]>>
        /\ jobs[r.job].status = "FAILED"
        /\ jobs[r.job].processedCount = MaxItems /\ jobs[r.job].totalCount = MaxItems
        /\ jobs[r.job].errorMessage.errors = <<userErrorText(batchSize + 3)>>

\* C25: without an access token a routine hands no item to the client and takes
\* no batch; its getShopSettings step throws 'Shop access token not found', the
\* catch writes FAILED with that message, and the routine's return removes the
\* job id from the guard set.
C25_NoCredentialsFailsJob ==
    [][\A r \in BagToSet(routines) :
         /\ ~hasToken =>
               /\ r.pc \notin {"item", "wProgress", "wFinal"}
               /\ r.submitted = <<>> /\ r.batches = <<>>
         /\ (~hasToken /\ r.pc = "getSettings" /\ faultBudget' = faultBudget) =>
               \A r2 \in BagToSet(routines') :
                  RoutineMoves(r, r2) => r2 = Throw(r, TokenMsg)
         /\ (CatchWriteBy(r) /\ r.error = TokenMsg) =>
               /\ jobs'[r.job].status = "FAILED"
               /\ jobs'[r.job].errorMessage = TokenMsg
               /\ jobs'[r.job].completedAt = "set"
         /\ FinallyBy(r) => r.job \notin processingJobs']_vars

C25_Witness ==
    /\ ~hasToken /\ processingJobs = {} /\ routines = EmptyBag /\ calls = EmptyBag
    /\ "j1" \in DOMAIN jobs
    /\ jobs["j1"].status = "FAILED" /\ jobs["j1"].errorMessage = TokenMsg
    /\ jobs["j1"].processedCount = 0 /\ jobs["j1"].totalCount = MaxItems

\* C27: a run hands the items to the client one by one in list order, each once,
\* and reaches its final update only when all were handed over; a batch that
\* throws adds its length to failureCount and the loop goes on with the next batch.
C27_NoFailureAbortsLoop ==
    [][\A r \in BagToSet(routines) :
         /\ r.pc \in {"item", "wProgress"} => r.submitted = Take(r.productIds, r.i + r.k)
         /\ r.pc = "wFinal" => r.submitted = r.productIds
         /\ (r.pc = "wProgress" /\ faultBudget' < faultBudget) =>
               \A r2 \in BagToSet(routines') :
                  RoutineMoves(r, r2) =>
                     /\ r2.failureCount = r.failureCount + Len(batchOf(r))
                     /\ r2.i = r.i + batchSize
                     /\ r2.pc = IF r2.i < Len(r.productIds) THEN "item" ELSE "wFinal"
                     /\ r2.submitted = r.submitted]_vars

C27_Witness ==
    \E r \in BagToSet(routines) :
        /\ r.pc = "wFinal" /\ Len(r.productIds) = MaxItems
        /\ r.thrownItems = batchSize /\ r.itemsFailed = 1
        /\ r.failedItems[1].productId = 1
        /\ r.submitted = r.productIds

\* C28: the loop takes ceil(n / 10) slices, each of 10 items except possibly the
\* last, contiguous and in list order: put end to end they are the item list.
C28_BatchesPartitionList ==
    \A r \in BagToSet(routines) :
        LET n == Len(r.productIds)
            m == Len(r.batches)
        IN /\ r.pc \in {"item", "wProgress"} =>
                 Flatten(r.batches) = Take(r.productIds, r.i + batchSize)
           /\ r.pc = "wFinal" =>
                 /\ m = Ceil(n, batchSize)
                 /\ \A b \in 1..(m - 1) : Len(r.batches[b]) = batchSize
                 /\ Len(r.batches[m]) = n - batchSize * (m - 1)
                 /\ Len(r.batches[m]) >= 1
                 /\ Flatten(r.batches) = r.productIds

C28_Witness ==
    \E r \in BagToSet(routines) :
        /\ r.pc = "wFinal" /\ Len(r.productIds) = MaxItems
        /\ Len(r.batches) = 3
        /\ r.batches[2] = SubSeq(r.productIds, batchSize + 1, 2 * batchSize)
        /\ Len(r.batches[3]) = MaxItems - 2 * batchSize

\* C29: within a run the items go to the client in list order, one per step of
\* the routine, and the loop index moves on to the next batch only in the step
\* that attempts the progress write of a batch whose items were all handed over.
C29_ItemsInOrder ==
    [][\A r \in BagToSet(routines), r2 \in BagToSet(routines') :
         RoutineMoves(r, r2) =>
            /\ r2.submitted # r.submitted =>
                  /\ r.pc = "item"
                  /\ r2.submitted = Append(r.submitted, r.productIds[Len(r.submitted) + 1])
            /\ r2.i # r.i =>
                  /\ r.pc = "wProgress" /\ r.k = Len(batchOf(r))
                  /\ r2.i = r.i + batchSize]_vars

C29_Witness ==
    \E r \in BagToSet(routines) :
        /\ r.pc = "item" /\ r.i = batchSize /\ r.k = 1
        /\ r.submitted = Take(r.productIds, batchSize + 1)
        /\ jobs[r.job].processedCount = batchSize
        /\ jobs[r.job].status = "RUNNING"

\* C30: a routine ends only through its finally block, which every path reaches
\* (after the final update, after the catch's update, and when that update throws
\* too), and its return leaves the job id out of the guard set.
C30_GuardReleasedOnReturn ==
    [][\A r \in BagToSet(routines) :
         /\ routines' = Drop(routines, r) => r.pc = "finally"
         /\ FinallyBy(r) => r.job \notin processingJobs'
         /\ \A r2 \in BagToSet(routines') :
               RoutineMoves(r, r2) =>
                  /\ r.pc = "wCatch" => r2.pc = "finally"
                  /\ r.pc = "wFinal" => r2.pc \in {"finally", "wCatch"}
                  /\ r.pc \in {"getJob", "wRunning", "getSettings"} =>
                        r2.pc \in {"wRunning", "getSettings", "item", "wFinal", "wCatch"}]_vars

C30_Witness ==
    /\ routines = EmptyBag /\ processingJobs = {} /\ calls = EmptyBag
    /\ "j1" \in DOMAIN jobs
    /\ jobs["j1"].status = "RUNNING"
    /\ faultBudget = 0 /\ callBudget = 0

\* C21: every dispatch of a single-item call, first attempt or retry, is counted
\* in the window of the outbound limiter (shopifyApiLimiter) before it is sent.
C21_DispatchPassesThrottle ==
    [][DispatchStep =>
         \E k \in Keys :
            /\ requests'["shopifyApi"][k].present
            /\ requests'["shopifyApi"][k].count =
                  windowAt(requests["shopifyApi"][k], now,
                           config("shopifyApi").windowMs).count + 1]_vars

\* C22: in one bulkUpdateVendor call a pause lies between every two successive
\* updates, whatever the outcome of the earlier one and also with duplicate ids.
C22_PauseBetweenUpdates ==
    \A x \in 1..(Len(bulk.log) - 1) :
        bulk.log[x].kind = "update" => bulk.log[x + 1].kind = "pause"

\* C23: bulkUpdateVendor counts every id exactly once, as failed iff its update
\* threw or returned validation errors; the result it returns has successCount +
\* failureCount = number of ids, and every failed id is in errors (thrown) or in
\* userErrors (validation), ids that succeeded everywhere in neither.
C23_EveryIdCountedOnce ==
    LET done == DOMAIN bulk.outcomes
        failed == {x \in done : bulk.outcomes[x] # "ok"}
        listed(list) == {list[x] : x \in DOMAIN list}
    IN /\ bulk.pc \in {"off", "item", "pause", "returned"}
       /\ bulk.result.successCount = Cardinality(done \ failed)
       /\ bulk.result.failureCount = Cardinality(failed)
       /\ listed(bulk.result.errors) =
             {bulk.productIds[x] : x \in {y \in done : bulk.outcomes[y] = "error"}}
       /\ listed(bulk.result.userErrors) =
             {bulk.productIds[x] :
                 x \in {y \in done : bulk.outcomes[y] \in {"userError", "userErrors2"}}}
       /\ bulk.pc = "returned" =>
             /\ Len(bulk.outcomes) = Len(bulk.productIds)
             /\ bulk.result.successCount + bulk.result.failureCount = Len(bulk.productIds)

C23_Witness ==
    /\ bulk.pc = "returned" /\ bulk.productIds = <<"p1", "p2", "p1">>
    /\ bulk.outcomes = <<"error", "userErrors2", "ok">>
    /\ bulk.result.successCount = 1 /\ bulk.result.failureCount = 2
    /\ bulk.result.errors = <<"p1">> /\ bulk.result.userErrors = <<"p2", "p2">>

\* C26: a job does not stay PENDING or RUNNING for ever: once no processing
\* routine of the job is left and no createJob, retryJob or cancelJob call on it
\* is under way (so nothing more happens to it unless a client calls again), its
\* status is SUCCESS or FAILED and its id is out of the guard set.
C26_QuiescentIsTerminal ==
    \A j \in DOMAIN jobs :
        (RoutinesOf(j) = {} /\ \A c \in BagToSet(calls) : c.job # j) =>
            /\ jobs[j].status \in Terminal
            /\ j \notin processingJobs

\* C31: the error digest persisted on a job holds at most 5 error descriptors,
\* however many items, batches and failures the run had.
C31_DigestAtMostFive ==
    \A j \in DOMAIN jobs : Len(jobs[j].errorMessage.errors) <= 5

\* a run with more than five descriptors has persisted its digest
C31_Witness ==
    \E r \in BagToSet(routines) :
        /\ r.pc = "finally" /\ Len(r.allErrors) > 5
        /\ jobs[r.job].errorMessage.kind = "digest"
        /\ Len(jobs[r.job].errorMessage.errors) = 5

\* C32: when a run produced more than 5 error descriptors, the persisted digest
\* records how many were suppressed (total minus 5): the digest determines that
\* number, so the same run with another number of descriptors beyond the fifth
\* would have persisted another digest.
C32_DigestTellsSuppressed ==
    \A r \in BagToSet(routines) :
        (/\ r.pc = "finally" /\ Len(r.allErrors) > 5
         /\ jobs[r.job].errorMessage = errorMessageOf(r.failureCount, r.allErrors)) =>
            \A n \in 6..Len(r.allErrors) :
                errorMessageOf(r.failureCount, Take(r.allErrors, n)) = jobs[r.job].errorMessage
                    => n - 5 = Len(r.allErrors) - 5

\* C33: when attempt k (k = 1, 2) fails with an error that is retried and the
\* response carries no Retry-After, the delay taken before attempt k + 1 lies in
\* [1000 * 2^(k-1), 1000 * 2^(k-1) + 500) milliseconds.
C33_BackoffInterval ==
    [][(/\ DispatchStep /\ request'.pc = "wait"
        /\ request'.response.retryAfter.form = "none") =>
            LET k == request.attempt
                delay == request'.delays[Len(request'.delays)]
            IN /\ k \in {1, 2}
               /\ Len(request'.delays) = Len(request.delays) + 1
               /\ delay.ms >= 1000 * 2^(k - 1)
               /\ delay.ms < 1000 * 2^(k - 1) + 500]_vars

\* both delays of a call taken as backoff, at the two ends of the jitter
C33_Witness ==
    /\ request.pc = "wait" /\ request.attempt = 2
    /\ request.response = Response("network", 0, NoHeader)
    /\ request.delays = <<Delay("backoff", 1499), Delay("backoff", 2000)>>

\* C34: a rejection never understates the wait: when the latest middleware call
\* was refused for a key with retryAfter seconds, and the next call arrives for
\* that key at that instance retryAfter seconds after the refusal or later, it
\* is admitted.
C34_RetryAfterSuffices ==
    [][\A l \in Limiters, k \in Keys :
          (/\ MiddlewareOn(l, k)
           /\ reply.status = "429" /\ reply.limiter = l /\ reply.key = k
           /\ now >= reply.at + reply.retryAfter * 1000) =>
              reply'.status = "next"]_vars

\* a caller refused one millisecond into the second has come back after the
\* advertised wait, past the reset time of the window, and is admitted
C34_Witness ==
    /\ reply.limiter = "shopifyApi" /\ reply.key = "shopA" /\ reply.status = "next"
    /\ reply.at = 1001 /\ reply.found.present /\ reply.found.resetTime = 1000
    /\ reply.found.count > config("shopifyApi").maxRequests

\* C35: a sweep removes exactly the windows of its instance whose reset time
\* has passed, and no other; and sweeps cannot be observed: every middleware
\* call decides (admit or refuse, retryAfter, remaining) as it would have, had
\* the same calls arrived at the same instants with no sweep ever run.
C35_SweepUnobservable ==
    [][/\ (requests' # requests /\ reply' = reply) =>
            /\ \A l \in Limiters, k \in Keys :
                  requests'[l][k] # requests[l][k] =>
                      /\ requests[l][k].present /\ requests[l][k].resetTime <= now
                      /\ requests'[l][k] = NoLog
            /\ \E l \in Limiters : \A k \in Keys :
                  requests'[l][k].present => requests'[l][k].resetTime > now
       /\ \A l \in Limiters, k \in Keys :
            MiddlewareOn(l, k) =>
                LET plain == countIn(unswept[l][k], l)
                    over == overLimit(plain.count, config(l).maxRequests)
                IN /\ reply'.status = (IF over THEN "429" ELSE "next")
                   /\ reply'.retryAfter = (IF over THEN Ceil(plain.resetTime - now, 1000) ELSE 0)
                   /\ reply'.remaining = (IF over THEN 0
                                          ELSE Max(0, config(l).maxRequests - plain.count))]_vars

\* a call has been decided on a key whose expired window a sweep had removed
C35_Witness ==
    /\ reply.limiter = "shopifyApi" /\ reply.key = "shopA" /\ reply.status = "next"
    /\ ~reply.found.present
    /\ unswept["shopifyApi"]["shopA"].present
    /\ unswept["shopifyApi"]["shopA"].resetTime > 1000

\* the shop a request carries, wherever it carries it
shopOf(req) ==
    IF req.header # Absent THEN req.header
    ELSE IF req.body # Absent THEN req.body
    ELSE req.query

\* C36: the throttle key of a request is its shop (tenant) whenever the request
\* carries one, in the header, the body or the query string, and its address
\* only otherwise: two requests of one shop get the same key whatever their
\* addresses, two requests of different shops from one address get different keys.
C36_KeyIsTenant ==
    \A x \in 1..Len(incoming.keys) :
        LET req == incoming.reqs[x]
            key == incoming.keys[x]
        IN /\ key = (IF shopOf(req) # Absent THEN shopOf(req) ELSE req.ip)
           /\ \A y \in 1..Len(incoming.keys) :
                 (shopOf(req) # Absent /\ shopOf(incoming.reqs[y]) # Absent) =>
                     (key = incoming.keys[y] <=> shopOf(req) = shopOf(incoming.reqs[y]))

\* what getJobStatus reports as isProcessing: this.processingJobs.has(id)
isProcessing(j) == j \in processingJobs

\* C37: the guard set holds a job id exactly while a processing routine of that
\* job is active, so getJobStatus reports a job as in flight exactly while it is
\* being processed, also after a cancelJob.
C37_GuardIffActive ==
    \A j \in JobIds : isProcessing(j) <=> RoutinesOf(j) # {}

\* the items of the batches routine r has been through (the batch whose
\* progress write is pending included)
itemsDone(r) ==
    Min(IF r.pc = "wProgress" THEN r.i + batchSize ELSE r.i, Len(r.productIds))

\* C38: each batch adds exactly its item count to processedCount and at most its
\* item count to failureCount, on every path through the batch step: between
\* batches and after the loop the routine's processedCount is the number of items
\* of the batches it has been through, and its failureCount is not larger.
C38_BatchCountedOnce ==
    \A r \in BagToSet(routines) :
        r.pc \in {"item", "wProgress", "wFinal"} =>
            /\ r.processedCount = itemsDone(r)
            /\ r.failureCount <= itemsDone(r)

\* C39: in every state a job's completedAt is set exactly when its persisted
\* status is SUCCESS or FAILED, whatever the interleaving of retryJob and
\* cancelJob with the processing routine.
C39_CompletedAtIffTerminal ==
    \A j \in DOMAIN jobs :
        jobs[j].completedAt = "set" <=> jobs[j].status \in Terminal

\* the step is routine r handing its next item to updateProductVendor
ItemCallBy(r) ==
    /\ r.pc = "item"
    /\ \E r2 \in BagToSet(routines') :
          RoutineMoves(r, r2) /\ Len(r2.submitted) = Len(r.submitted) + 1

\* C40: between the end of one item call and the dispatch of the next item call
\* of the same routine the 250 ms pause has always been taken, also when the two
\* items lie in different batches.
C40_PauseBeforeNextItem ==
    [][\A r \in BagToSet(routines) :
          (ItemCallBy(r) /\ Len(r.submitted) > 0) => r.paused]_vars

====
